---- MODULE Spec2Model ----
(***************************************************************************)
(* Query-and-harmonize engine of gwas-summary-statistics-app               *)
(* (src/gwas-summary-statistics-app/src/gwasss.rs).                        *)
(*                                                                         *)
(* One behaviour is one call of Component::get_stats_for_variant, of        *)
(* Component::get_stats_for_region or of SummaryStatsFile::read_file,      *)
(* followed (for the last two) by the caller pulling items from the        *)
(* returned SummaryStatsFile iterator.                                     *)
(*                                                                         *)
(* Text is modelled by what the conversions do to it: to_uppercase and     *)
(* str::parse are tables over the strings that occur in the modelled       *)
(* files, and an f32 is a sign plus a ratio num/den (den = 0 is an         *)
(* infinity, 0/0 a NaN), so that negation is the flip of the sign bit and  *)
(* exp(-ln(x)) is the reciprocal.                                          *)
(***************************************************************************)
EXTENDS Integers, Sequences, FiniteSets, TLC

\* Largest number of lines the retrieval subprocess writes to its stdout.
MaxLines == 3

\* Largest number of times the caller flips a record it received.
MaxFlips == 2

\* Number of diagnostic messages the stderr pipe of the subprocess holds.
StderrCap == 1

VARIABLES
    op,            \* "variant" | "region" | "read_file": the operation called
    storeOrder,    \* how genepa_rs::Variant::new stores the allele pair
    v,             \* the requested variant (argument v)
    coded_allele,  \* the requested coded allele (argument coded_allele)
    effect_type,   \* self.effect_type of the Component
    pc,            \* position inside the call
    spawned,       \* the retrieval subprocesses started so far, as argument lists
    lines,         \* the lines of the stream's source (child stdout or file)
    pos,           \* number of lines the stream has consumed
    vec,           \* the Vec<AssociationStat> built by filter_map/collect
    yielded,       \* items next() returned to the holder of a stream, in order
    result,        \* the value returned by the call
    exit_status,   \* what spawn() and wait() answered for the subprocess
    flipped,       \* the record as it was before each flip by the caller
    child,         \* the retrieval subprocess: none, running, blocked, exited
    stdout_pipe,   \* lines the subprocess wrote to its stdout pipe, unread
    stderr_pipe    \* number of messages in its stderr pipe, never read

childvars == <<child, stdout_pipe, stderr_pipe>>

vars == <<op, storeOrder, v, coded_allele, effect_type, pc, spawned, lines,
          pos, vec, yielded, result, exit_status, flipped, child,
          stdout_pipe, stderr_pipe>>

----------------------------------------------------------------------------
(* Text and numbers *)

\* The file the Component points at (self.formatted_file).
formatted_file == "stats.tsv.gz"

EffectType == {"Beta", "OR", "HR", "Other"}

CodedAllele == {"A1Coded", "A2Coded"}

\* str::to_uppercase on the allele strings that occur in the model.
to_uppercase(s) ==
    CASE s = "g" -> "G"
      [] s = "c" -> "C"
      [] s = "t" -> "T"
      [] OTHER   -> s

\* Byte order of the allele strings (what Vec<String>::sort compares).
ByteRank(s) ==
    CASE s = "C" -> 1
      [] s = "G" -> 2
      [] s = "T" -> 3
      [] s = "c" -> 4
      [] s = "g" -> 5
      [] s = "t" -> 6
      [] OTHER   -> 0

\* str::parse::<u32>() of the position column: ok = FALSE is Err.
ParseU32(s) ==
    CASE s = "12345" -> [ok |-> TRUE, val |-> 12345]
      [] s = "12346" -> [ok |-> TRUE, val |-> 12346]
      [] OTHER       -> [ok |-> FALSE, val |-> 0]

\* An f32: sign bit and magnitude num/den; den = 0 < num is an infinity,
\* num = den = 0 is a NaN.
F32(neg, num, den) == [neg |-> neg, num |-> num, den |-> den]

NaN == F32(FALSE, 0, 0)

IsNaN(x) == x.num = 0 /\ x.den = 0

\* str::parse::<f32>() of the effect, se and p columns.
ParseF32(s) ==
    CASE s = "0.5"  -> [ok |-> TRUE, val |-> F32(FALSE, 1, 2)]
      [] s = "-0.5" -> [ok |-> TRUE, val |-> F32(TRUE, 1, 2)]
      [] s = "2"    -> [ok |-> TRUE, val |-> F32(FALSE, 2, 1)]
      [] s = "0"    -> [ok |-> TRUE, val |-> F32(FALSE, 0, 1)]
      [] s = "0.1"  -> [ok |-> TRUE, val |-> F32(FALSE, 1, 10)]
      [] s = "0.02" -> [ok |-> TRUE, val |-> F32(FALSE, 1, 50)]
      [] OTHER      -> [ok |-> FALSE, val |-> NaN]

\* Variant of F32Neg that clears the sign bit instead of flipping it.
F32Neg_abs(x) == F32(FALSE, x.num, x.den)

\* Unary minus on f32: flips the sign bit, of zeros and NaNs too.
F32Neg(x) == F32(~x.neg, x.num, x.den)

\* f32::ln followed by negation followed by f32::exp:
\*   ln(NaN) and ln(x < 0) are NaN; ln(+-0) = -inf, so exp(+inf) = +inf;
\*   ln(+inf) = +inf, so exp(-inf) = +0; otherwise exp(-ln(x)) = 1/x.
F32ExpNegLn(x) ==
    IF IsNaN(x) \/ (x.neg /\ x.num > 0) THEN NaN
    ELSE F32(FALSE, x.den, x.num)

----------------------------------------------------------------------------
(* genepa_rs::Variant *)

\* Variant::new: the pair is kept as given or stored in sorted order.
Variant_new(name, chrom, position, alleles) ==
    [name     |-> name,
     chrom    |-> chrom,
     position |-> position,
     alleles  |-> IF storeOrder = "sorted"
                     /\ ByteRank(alleles[2]) < ByteRank(alleles[1])
                  THEN <<alleles[2], alleles[1]>>
                  ELSE alleles]

\* Variant == Variant: chromosome, position and the allele pair as a set.
VariantEq(a, b) ==
    /\ a.chrom = b.chrom
    /\ a.position = b.position
    /\ {a.alleles[1], a.alleles[2]} = {b.alleles[1], b.alleles[2]}

----------------------------------------------------------------------------
(* AssociationStat *)

AssociationStat(variant, code, effect, se, p) ==
    [variant |-> variant, coded_allele |-> code,
     effect |-> effect, se |-> se, p |-> p]

\* Placeholder where a value carries no record or no variant.
NoVariant == [name |-> "", chrom |-> "", position |-> 0, alleles |-> <<"", "">>]

NoStat == AssociationStat(NoVariant, "A1Coded", NaN, NaN, NaN)

get_reference_allele(stat) ==
    IF stat.coded_allele = "A1Coded" THEN stat.variant.alleles[2]
    ELSE stat.variant.alleles[1]

get_coded_allele(stat) ==
    IF stat.coded_allele = "A1Coded" THEN stat.variant.alleles[1]
    ELSE stat.variant.alleles[2]

\* Variant of flip_coded_allele that leaves the slot as it is.
flip_coded_allele_keep_slot(stat, et) ==
    IF et = "Other" THEN [panicked |-> TRUE, stat |-> stat]
    ELSE [panicked |-> FALSE,
          stat |-> [stat EXCEPT
             !.effect = IF et \in {"OR", "HR"} THEN F32ExpNegLn(stat.effect)
                        ELSE F32Neg(stat.effect)]]

\* Variant of flip_coded_allele whose Other arm returns instead of panicking.
flip_coded_allele_other_returns(stat, et) ==
    [panicked |-> FALSE,
     stat |-> IF et = "Other" THEN stat
              ELSE [stat EXCEPT
                 !.effect = IF et \in {"OR", "HR"} THEN F32ExpNegLn(stat.effect)
                            ELSE F32Neg(stat.effect),
                 !.coded_allele = IF stat.coded_allele = "A1Coded"
                                  THEN "A2Coded" ELSE "A1Coded"]]

\* flip_coded_allele(&mut self, effect_type): panicked = TRUE is the panic!
\* of the Other arm, raised before any field is assigned.
flip_coded_allele(stat, et) ==
    IF et = "Other" THEN [panicked |-> TRUE, stat |-> stat]
    ELSE [panicked |-> FALSE,
          stat |-> [stat EXCEPT
             !.effect = IF et \in {"OR", "HR"} THEN F32ExpNegLn(stat.effect)
                        ELSE F32Neg(stat.effect),
             !.coded_allele = IF stat.coded_allele = "A1Coded"
                              THEN "A2Coded" ELSE "A1Coded"]]

----------------------------------------------------------------------------
(* Line parser *)

\* Column indices of VariantIndices, as 1-based positions of the split line.
IdxName  == 1
IdxChrom == 2
IdxPos   == 3
IdxA1    == 4
IdxA2    == 5

\* TRUE when every column the parser indexes exists and every
\* parse().unwrap() succeeds.
LineParses(fields) ==
    /\ Len(fields) >= 8
    /\ ParseU32(fields[IdxPos]).ok
    /\ ParseF32(fields[6]).ok
    /\ ParseF32(fields[7]).ok
    /\ ParseF32(fields[8]).ok

\* Variant of split_line_to_variant_using_idx that takes the slot from the
\* column position: column a2 is the second allele of the pair.
split_line_to_variant_by_column(fields) ==
    LET reference_allele == to_uppercase(fields[IdxA1])
        coded            == to_uppercase(fields[IdxA2])
        variant == Variant_new(fields[IdxName], fields[IdxChrom],
                               ParseU32(fields[IdxPos]).val,
                               <<reference_allele, coded>>)
    IN  [variant |-> variant, code |-> "A2Coded"]

\* _split_line_to_variant_using_idx on a line for which nothing panics.
split_line_to_variant_using_idx(fields) ==
    LET reference_allele == to_uppercase(fields[IdxA1])
        coded            == to_uppercase(fields[IdxA2])
        variant == Variant_new(fields[IdxName], fields[IdxChrom],
                               ParseU32(fields[IdxPos]).val,
                               <<reference_allele, coded>>)
        code == IF coded = variant.alleles[1] THEN "A1Coded" ELSE "A2Coded"
    IN  [variant |-> variant, code |-> code]

\* One item of Iterator::next for SummaryStatsFile, given the io::Result
\* line the underlying reader produced.  kind is "Ok" for Some(Ok(assoc))
\* and "Panic" when an unwrap() or an index panics; the function has no
\* path that returns Some(Err(_)).
next_item(line) ==
    IF ~line.utf8 \/ ~LineParses(line.fields)
    THEN [kind |-> "Panic", stat |-> NoStat]
    ELSE LET vc == split_line_to_variant_using_idx(line.fields)
         IN  [kind |-> "Ok",
              stat |-> AssociationStat(vc.variant, vc.code,
                                       ParseF32(line.fields[6]).val,
                                       ParseF32(line.fields[7]).val,
                                       ParseF32(line.fields[8]).val)]

----------------------------------------------------------------------------
(* Files *)

Line(fields) == [utf8 |-> TRUE, fields |-> fields]

\* Lines the retrieval subprocess may write.
GoodGC    == Line(<<"rsX", "3", "12345", "G", "C", "0.5", "0.1", "0.02">>)
GoodCG    == Line(<<"rsY", "3", "12345", "c", "g", "2", "0.1", "0.02">>)
OtherGT   == Line(<<"rsZ", "3", "12345", "G", "T", "-0.5", "0.1", "0.02">>)
BadPos    == Line(<<"rsX", "3", "x", "G", "C", "0.5", "0.1", "0.02">>)
BadEffect == Line(<<"rsX", "3", "12345", "G", "C", "abc", "0.1", "0.02">>)
BadSe     == Line(<<"rsX", "3", "12345", "G", "C", "0.5", "", "0.02">>)
BadP      == Line(<<"rsX", "3", "12345", "G", "C", "0.5", "0.1", "NA">>)
Short     == Line(<<"rsX", "3", "12345", "G", "C", "0.5", "0.1">>)
NotUtf8   == [utf8 |-> FALSE, fields |-> <<>>]

GoodLines == {GoodGC, GoodCG, OtherGT}

BadLines == {BadPos, BadEffect, BadSe, BadP, Short, NotUtf8}

Lines == GoodLines \cup BadLines

RECURSIVE SeqsUpTo(_, _)
SeqsUpTo(S, n) ==
    IF n = 0 THEN {<<>>}
    ELSE LET shorter == SeqsUpTo(S, n - 1)
         IN  shorter \cup {Append(q, x) : q \in {r \in shorter : Len(r) = n - 1},
                                          x \in S}

Outputs == SeqsUpTo(Lines, MaxLines)

\* The first line of a whole file: a header, or a data line when the file
\* has no header.
Header == Line(<<"name", "chrom", "pos", "a1", "a2", "effect", "se", "p">>)

FirstLines == {Header, GoodGC}

\* Contents of a file read by read_file: no line at all, or a first line
\* followed by data lines.
FileContents ==
    {<<>>} \cup {<<h>> \o q : h \in FirstLines,
                               q \in SeqsUpTo(Lines, MaxLines - 1)}

----------------------------------------------------------------------------
(* Values returned to the caller *)

\* tag "None": the call has not returned; "Panic": the thread panicked and no
\* value is returned.  The other tags are the variants of
\* Result<AssociationStat, ComponentQueryError> and, for a region query,
\* "OkStream" / "Err" of Result<SummaryStatsFile, String>.
Res(tag, stat, variant, msg, file) ==
    [tag |-> tag, stat |-> stat, variant |-> variant, msg |-> msg, file |-> file]

NoResult == Res("None", NoStat, NoVariant, "", "")

Panicked == Res("Panic", NoStat, NoVariant, "", "")

MsgBadAllele == "Provided coded allele is not an allele of the variant."
MsgNotFound  == "Could not find variant in statistics file."
MsgMultiple  == "Variant has multiple entries in the summary statistics file"
MsgTabix     == "Tabix exited with an error; does '{}' exist?"

----------------------------------------------------------------------------
(* SummaryStatsFile::tabix *)

\* What the operating system may answer to spawn() and wait().
SpawnOutcomes == {"spawned", "spawn_failed"}
WaitOutcomes  == {"exit_zero", "exit_nonzero", "wait_failed"}

\* format!("{}:{}-{}", v.chrom.name, v.position, v.position)
RegionOf(variant) ==
    [chrom |-> variant.chrom, start |-> variant.position,
     end |-> variant.position]

\* Variant of tabix that never looks at the exit status.
tabix_ignores_status(filename, spawn, wait, out) ==
    IF spawn = "spawn_failed"
    THEN [kind |-> "Panic", msg |-> "", file |-> "", lines |-> <<>>]
    ELSE [kind |-> "Ok", msg |-> "", file |-> "", lines |-> out]

\* SummaryStatsFile::tabix(filename, region) under the given answers of the
\* operating system; out is what the child wrote to its stdout.
\*   "Panic": .expect("Tabix failed") on a failed spawn;
\*   "Err":   the child exited with a nonzero status;
\*   "Ok":    a stream over the child's stdout (also when wait() itself
\*            failed: the if let skips the status check).
\* The call returns only when wait() has returned, which needs the child
\* to have exited.
tabix(filename, spawn, wait, out) ==
    IF spawn = "spawn_failed"
    THEN [kind |-> "Panic", msg |-> "", file |-> "", lines |-> <<>>]
    ELSE IF wait = "exit_nonzero"
    THEN [kind |-> "Err", msg |-> MsgTabix, file |-> filename, lines |-> <<>>]
    ELSE [kind |-> "Ok", msg |-> "", file |-> "", lines |-> out]

----------------------------------------------------------------------------
(* State machine *)

RequestedPairs == {<<"G", "C">>, <<"C", "G">>}

RequestedAlleles == {"G", "C", "T"}

Regions == {[chrom |-> "3", start |-> 12345, end |-> 12345]}

Init ==
    /\ op \in {"variant", "region", "read_file"}
    /\ storeOrder \in {"given", "sorted"}
    /\ effect_type \in EffectType
    /\ IF op = "variant"
       THEN /\ \E pair \in RequestedPairs :
                  v = Variant_new("", "3", 12345, pair)
            /\ coded_allele \in RequestedAlleles
       ELSE /\ v = NoVariant
            /\ coded_allele = ""
    /\ pc = "start"
    /\ spawned = <<>>
    /\ lines = <<>>
    /\ pos = 0
    /\ vec = <<>>
    /\ yielded = <<>>
    /\ result = NoResult
    /\ exit_status = "none"
    /\ flipped = <<>>
    /\ child = "none"
    /\ stdout_pipe = <<>>
    /\ stderr_pipe = 0

\* Variant of not_an_allele with the second comparison written as ==.
not_an_allele_eq(allele, variant) ==
    allele # variant.alleles[1] /\ allele = variant.alleles[2]

\* get_stats_for_variant, line 115: the requested allele is neither allele
\* of the variant.
not_an_allele(allele, variant) ==
    allele # variant.alleles[1] /\ allele # variant.alleles[2]

\* get_stats_for_variant, lines 115-119: the allele check.
CheckCodedAllele ==
    /\ pc = "start"
    /\ op = "variant"
    /\ IF not_an_allele(coded_allele, v)
       THEN /\ result' = Res("BadInput", NoStat, NoVariant, MsgBadAllele, "")
            /\ pc' = "done"
       ELSE /\ pc' = "tabix"
            /\ UNCHANGED result
    /\ UNCHANGED <<op, storeOrder, v, coded_allele, effect_type, spawned,
                   lines, pos, vec, yielded, exit_status, flipped>>
    /\ UNCHANGED childvars

\* The lines a pipe holds before a write to it blocks: the subprocess can
\* write one line more than the largest output that is read back.
PipeCap == MaxLines

\* SummaryStatsFile::tabix, lines 226-232, for a get_stats_for_variant
\* (lines 121-125) or a get_stats_for_region (line 178): the subprocess is
\* spawned with stdout and stderr piped; a failed spawn is the panic of
\* expect.  The caller then sits in output.wait() (line 234).
SpawnTabix(region) ==
    \E spawn \in SpawnOutcomes :
       LET t == tabix(formatted_file, spawn, "exit_zero", <<>>)
       IN  IF t.kind = "Panic"
           THEN /\ exit_status' = spawn
                /\ result' = Panicked
                /\ pc' = "aborted"
                /\ UNCHANGED <<spawned, child>>
           ELSE /\ spawned' = Append(spawned, [file |-> formatted_file,
                                               region |-> region])
                /\ child' = "running"
                /\ pc' = "waiting"
                /\ UNCHANGED <<exit_status, result>>

\* get_stats_for_variant, lines 121-125: the region string and the call of
\* SummaryStatsFile::tabix, up to its wait().
OpenTabix ==
    /\ pc = "tabix"
    /\ op = "variant"
    /\ SpawnTabix(RegionOf(v))
    /\ UNCHANGED <<op, storeOrder, v, coded_allele, effect_type, lines, pos,
                   vec, yielded, flipped, stdout_pipe, stderr_pipe>>

\* The subprocess writes one more line to its stdout pipe.
ChildWrite ==
    /\ child = "running"
    /\ Len(stdout_pipe) < PipeCap
    /\ \E line \in Lines : stdout_pipe' = Append(stdout_pipe, line)
    /\ UNCHANGED <<op, storeOrder, v, coded_allele, effect_type, pc, spawned,
                   lines, pos, vec, yielded, result, exit_status, flipped,
                   child, stderr_pipe>>

\* The subprocess writes one more message to its stderr pipe.
ChildWriteErr ==
    /\ child = "running"
    /\ stderr_pipe < StderrCap
    /\ stderr_pipe' = stderr_pipe + 1
    /\ UNCHANGED <<op, storeOrder, v, coded_allele, effect_type, pc, spawned,
                   lines, pos, vec, yielded, result, exit_status, flipped,
                   child, stdout_pipe>>

\* The subprocess writes to a pipe that is full: the write blocks until the
\* other end is read, and nothing reads it while the parent is in wait().
ChildBlocks ==
    /\ child = "running"
    /\ \/ Len(stdout_pipe) = PipeCap /\ child' = "blocked_stdout"
       \/ stderr_pipe = StderrCap /\ child' = "blocked_stderr"
    /\ UNCHANGED <<op, storeOrder, v, coded_allele, effect_type, pc, spawned,
                   lines, pos, vec, yielded, result, exit_status, flipped,
                   stdout_pipe, stderr_pipe>>

\* The subprocess has written all it had to write and exits.
ChildExit ==
    /\ child = "running"
    /\ child' = "exited"
    /\ UNCHANGED <<op, storeOrder, v, coded_allele, effect_type, pc, spawned,
                   lines, pos, vec, yielded, result, exit_status, flipped,
                   stdout_pipe, stderr_pipe>>

\* SummaryStatsFile::tabix, lines 234-247, and what its caller does with the
\* value (lines 125-128 and 178): wait() returns once the subprocess has
\* exited; the stream, if one is built, reads what the pipe holds.
TabixWait ==
    /\ pc = "waiting"
    /\ child = "exited"
    /\ \E wait \in WaitOutcomes :
         LET t == tabix(formatted_file, "spawned", wait, stdout_pipe)
         IN  /\ exit_status' = wait
             /\ IF t.kind = "Err"
                THEN /\ result' = Res(IF op = "variant" THEN "TabixError"
                                      ELSE "Err",
                                      NoStat, NoVariant, t.msg, t.file)
                     /\ pc' = "done"
                     /\ UNCHANGED lines
                ELSE /\ lines' = t.lines
                     /\ IF op = "variant"
                        THEN /\ pc' = "collect"
                             /\ UNCHANGED result
                        ELSE /\ result' = Res("OkStream", NoStat, NoVariant,
                                              "", "")
                             /\ pc' = "stream"
    /\ UNCHANGED <<op, storeOrder, v, coded_allele, effect_type, spawned, pos,
                   vec, yielded, flipped, child, stdout_pipe, stderr_pipe>>

\* get_stats_for_variant, lines 131-142: one round of filter_map/collect,
\* which pulls one item from the stream and keeps it when it is Ok and its
\* variant equals v.
CollectNext ==
    /\ pc = "collect"
    /\ pos < Len(lines)
    /\ LET item == next_item(lines[pos + 1])
       IN  /\ pos' = pos + 1
           /\ IF item.kind = "Panic"
              THEN /\ result' = Panicked
                   /\ pc' = "aborted"
                   /\ UNCHANGED vec
              ELSE /\ vec' = IF VariantEq(item.stat.variant, v)
                             THEN Append(vec, item.stat) ELSE vec
                   /\ UNCHANGED <<pc, result>>
    /\ UNCHANGED <<op, storeOrder, v, coded_allele, effect_type, spawned,
                   lines, yielded, exit_status, flipped>>
    /\ UNCHANGED childvars

\* Variant of current_coded_allele with the two arms exchanged.
current_coded_allele_swapped(stat) ==
    IF stat.coded_allele = "A1Coded" THEN stat.variant.alleles[2]
    ELSE stat.variant.alleles[1]

\* get_stats_for_variant, lines 154-157: the allele the kept record is
\* currently coded for.
current_coded_allele(stat) ==
    IF stat.coded_allele = "A1Coded" THEN stat.variant.alleles[1]
    ELSE stat.variant.alleles[2]

\* get_stats_for_variant, lines 144-172: the stream is exhausted and the
\* outcome is decided on the number of records kept.
Decide ==
    /\ pc = "collect"
    /\ pos = Len(lines)
    /\ IF Len(vec) = 0
       THEN /\ result' = Res("NotFound", NoStat, v, MsgNotFound, "")
            /\ pc' = "done"
            /\ UNCHANGED vec
       ELSE IF Len(vec) = 1
       THEN LET stat == vec[1]
                f    == flip_coded_allele(stat, effect_type)
            IN  /\ vec' = <<>>
                /\ IF current_coded_allele(stat) # coded_allele
                   THEN IF f.panicked
                        THEN /\ result' = Panicked
                             /\ pc' = "aborted"
                        ELSE /\ result' = Res("Ok", f.stat, NoVariant, "", "")
                             /\ pc' = "done"
                   ELSE /\ result' = Res("Ok", stat, NoVariant, "", "")
                        /\ pc' = "done"
       ELSE /\ result' = Res("NotFound", NoStat, v, MsgMultiple, "")
            /\ pc' = "done"
            /\ UNCHANGED vec
    /\ UNCHANGED <<op, storeOrder, v, coded_allele, effect_type, spawned,
                   lines, pos, yielded, exit_status, flipped>>
    /\ UNCHANGED childvars

\* AssociationStat::flip_coded_allele, lines 318-334, called by the owner of
\* a record that get_stats_for_variant returned.
FlipCodedAllele ==
    /\ pc = "done"
    /\ result.tag = "Ok"
    /\ Len(flipped) < MaxFlips
    /\ LET f == flip_coded_allele(result.stat, effect_type)
       IN  IF f.panicked
           THEN /\ pc' = "aborted"
                /\ UNCHANGED <<result, flipped>>
           ELSE /\ result' = [result EXCEPT !.stat = f.stat]
                /\ flipped' = Append(flipped, result.stat)
                /\ UNCHANGED pc
    /\ UNCHANGED <<op, storeOrder, v, coded_allele, effect_type, spawned,
                   lines, pos, vec, yielded, exit_status>>
    /\ UNCHANGED childvars

\* get_stats_for_region, lines 175-179: the call of SummaryStatsFile::tabix,
\* up to its wait().
GetStatsForRegion ==
    /\ pc = "start"
    /\ op = "region"
    /\ \E region \in Regions : SpawnTabix(region)
    /\ UNCHANGED <<op, storeOrder, v, coded_allele, effect_type, lines, pos,
                   vec, yielded, flipped, stdout_pipe, stderr_pipe>>

\* What File::open may answer.
OpenOutcomes == {"opened", "open_failed"}

\* SummaryStatsFile::read_file, lines 250-263: the file is opened (a failure
\* is the panic of expect) and one line, if there is one, is taken from the
\* reader and dropped unread.
ReadFile ==
    /\ pc = "start"
    /\ op = "read_file"
    /\ \E open \in OpenOutcomes, content \in FileContents :
         IF open = "open_failed"
         THEN /\ result' = Panicked
              /\ pc' = "aborted"
              /\ UNCHANGED <<lines, pos>>
         ELSE /\ lines' = content
              /\ pos' = IF Len(content) > 0 THEN 1 ELSE 0
              /\ result' = Res("OkStream", NoStat, NoVariant, "", "")
              /\ pc' = "stream"
    /\ UNCHANGED <<op, storeOrder, v, coded_allele, effect_type, spawned,
                   vec, yielded, exit_status, flipped>>
    /\ UNCHANGED childvars

\* Iterator::next, lines 269-289, called by the holder of a stream.
StreamNext ==
    /\ pc = "stream"
    /\ IF pos < Len(lines)
       THEN LET item == next_item(lines[pos + 1])
            IN  /\ pos' = pos + 1
                /\ IF item.kind = "Panic"
                   THEN /\ pc' = "aborted"
                        /\ UNCHANGED yielded
                   ELSE /\ yielded' = Append(yielded, item)
                        /\ UNCHANGED pc
       ELSE /\ pc' = "drained"
            /\ UNCHANGED <<pos, yielded>>
    /\ UNCHANGED <<op, storeOrder, v, coded_allele, effect_type, spawned,
                   lines, vec, result, exit_status, flipped>>
    /\ UNCHANGED childvars

Next ==
    \/ CheckCodedAllele
    \/ OpenTabix
    \/ ChildWrite
    \/ ChildWriteErr
    \/ ChildBlocks
    \/ ChildExit
    \/ TabixWait
    \/ CollectNext
    \/ Decide
    \/ FlipCodedAllele
    \/ GetStatsForRegion
    \/ ReadFile
    \/ StreamNext

Spec == Init /\ [][Next]_vars

TypeOK ==
    /\ op \in {"variant", "region", "read_file"}
    /\ pc \in {"start", "tabix", "waiting", "collect", "stream", "drained",
              "done", "aborted"}
    /\ child \in {"none", "running", "blocked_stdout", "blocked_stderr",
                 "exited"}
    /\ stdout_pipe \in Outputs
    /\ lines \in Outputs \cup FileContents
    /\ stderr_pipe \in 0..StderrCap
    /\ pos \in 0..Len(lines)
    /\ Len(lines) <= MaxLines
    /\ Len(vec) <= pos
    /\ Len(flipped) <= MaxFlips
    /\ exit_status \in {"none"} \cup SpawnOutcomes \cup WaitOutcomes

----------------------------------------------------------------------------
(* Vocabulary of the properties *)

\* The line is text the parser cannot turn into a record.
Malformed(line) == line.utf8 /\ ~LineParses(line.fields)

\* The line is turned into a record.
Parses(line) == line.utf8 /\ LineParses(line.fields)

\* The retrieved lines that parse to the requested variant.
MatchingLines ==
    {i \in 1..Len(lines) :
        /\ Parses(lines[i])
        /\ VariantEq(split_line_to_variant_using_idx(lines[i].fields).variant, v)}

\* The call of get_stats_for_variant is over, by a return or by a panic.
CallEnded == op = "variant" /\ pc \in {"done", "aborted"}

\* tabix returned Ok to get_stats_for_variant.
RetrievalSucceeded ==
    /\ op = "variant"
    /\ exit_status \in {"exit_zero", "wait_failed"}

\* The record just returned by get_stats_for_variant, not yet touched by the
\* caller.
Returned == op = "variant" /\ pc = "done" /\ flipped = <<>>

----------------------------------------------------------------------------
(* Properties *)

\* C1: get_stats_for_variant returns BadInput whenever coded_allele is
\* neither v.alleles.0 nor v.alleles.1, whatever the file holds, and no
\* retrieval subprocess is started on that path.
C1_BadInputBeforeRetrieval ==
    (op = "variant" /\ coded_allele \notin {v.alleles[1], v.alleles[2]})
    => /\ spawned = <<>>
       /\ exit_status = "none"
       /\ pos = 0
       /\ \/ pc = "start" /\ result = NoResult
          \/ pc = "done" /\ result.tag = "BadInput"

C1_Witness ==
    /\ op = "variant"
    /\ coded_allele = "T"
    /\ pc = "done"
    /\ result.tag = "BadInput"

\* C2: when get_stats_for_variant returns after a successful retrieval in
\* which more than one line has the requested variant, the outcome is an
\* AmbiguousMatch that is not the NotFound of zero matches, and is not Ok.
C2_AmbiguousMatchDistinct ==
    (RetrievalSucceeded /\ pc = "done" /\ Cardinality(MatchingLines) > 1)
    => /\ result.tag # "NotFound"
       /\ result.tag # "Ok"

\* C3: when retrieval succeeds and no retrieved line (of readable text) has
\* the requested variant, get_stats_for_variant returns NotFound carrying
\* the requested variant.
C3_ZeroMatchesNotFound ==
    (/\ RetrievalSucceeded
     /\ CallEnded
     /\ \A i \in 1..Len(lines) : lines[i].utf8
     /\ MatchingLines = {})
    => /\ pc = "done"
       /\ result.tag = "NotFound"
       /\ result.variant = v

\* C4: whenever get_stats_for_variant returns Ok(stat), get_coded_allele of
\* stat is the requested coded allele.
C4_ReturnedCodedAllele ==
    (Returned /\ result.tag = "Ok")
    => get_coded_allele(result.stat) = coded_allele

\* The file line was coded for the other allele and the record was flipped.
C4_Witness ==
    /\ Returned
    /\ result.tag = "Ok"
    /\ Len(lines) = 1
    /\ result.stat.coded_allele #
          split_line_to_variant_using_idx(lines[1].fields).code
    /\ get_coded_allele(result.stat) = coded_allele

\* C5: when the single kept record is already coded for the requested
\* allele, get_stats_for_variant returns it with effect, se, p, variant and
\* slot unchanged, for every effect type, Other included.
C5_NoFlipWhenAlreadyCoded ==
    [][(/\ pc = "collect"
        /\ pos = Len(lines)
        /\ Len(vec) = 1
        /\ get_coded_allele(vec[1]) = coded_allele)
       => (/\ pc' = "done"
           /\ result'.tag = "Ok"
           /\ result'.stat = vec[1])]_vars

C5_Witness ==
    /\ Returned
    /\ effect_type = "Other"
    /\ result.tag = "Ok"
    /\ Len(lines) = 1
    /\ result.stat = next_item(lines[1]).stat
    /\ result.stat.effect = F32(FALSE, 1, 2)

\* C6: for effect type Beta, flip_coded_allele changes the sign of the
\* effect, moves the slot to the other slot and leaves variant, se and p as
\* they were; two flips give back the original record.
C6_BetaFlip ==
    (effect_type = "Beta" /\ Len(flipped) >= 1)
    => LET before == flipped[Len(flipped)]
           after  == result.stat
       IN  /\ after.effect.neg # before.effect.neg
           /\ after.effect.num = before.effect.num
           /\ after.effect.den = before.effect.den
           /\ after.coded_allele # before.coded_allele
           /\ after.variant = before.variant
           /\ after.se = before.se
           /\ after.p = before.p
           /\ (Len(flipped) = 2 => after = flipped[1])

C6_Witness ==
    /\ effect_type = "Beta"
    /\ Len(flipped) = 2
    /\ result.stat = flipped[1]
    /\ flipped[2].effect = F32(TRUE, 2, 1)

\* C7: for effect type Other a flip never completes and changes neither the
\* effect nor the slot: a call whose single matching record is coded for the
\* allele that was not requested ends in a panic and never returns Ok, and
\* no record of an Other component is ever flipped.
C7_OtherFlipFatal ==
    (op = "variant" /\ effect_type = "Other")
    => /\ flipped = <<>>
       /\ (result.tag = "Ok" =>
             \E i \in MatchingLines :
                 /\ result.stat = next_item(lines[i]).stat
                 /\ get_coded_allele(result.stat) = coded_allele)
       /\ (/\ RetrievalSucceeded
           /\ CallEnded
           /\ \A i \in 1..Len(lines) : Parses(lines[i])
           /\ Cardinality(MatchingLines) = 1
           /\ \E i \in MatchingLines :
                 get_coded_allele(next_item(lines[i]).stat) # coded_allele)
          => (pc = "aborted" /\ result.tag = "Panic")

C7_Witness ==
    /\ op = "variant"
    /\ effect_type = "Other"
    /\ pc = "aborted"
    /\ pos = Len(lines)
    /\ Len(lines) = 1
    /\ Parses(lines[1])
    /\ MatchingLines = {1}
    /\ get_coded_allele(next_item(lines[1]).stat) # coded_allele

\* C8: when the retrieval subprocess exits with a nonzero status, tabix
\* returns an error naming the file and builds no stream, no record is ever
\* yielded, and get_stats_for_variant returns TabixError, never NotFound.
C8_NonzeroExitIsError ==
    exit_status = "exit_nonzero"
    => /\ lines = <<>>
       /\ pos = 0
       /\ vec = <<>>
       /\ yielded = <<>>
       /\ pc = "done"
       /\ result.file = formatted_file
       /\ result.msg = MsgTabix
       /\ result.tag = IF op = "variant" THEN "TabixError" ELSE "Err"

C8_Witness ==
    /\ exit_status = "exit_nonzero"
    /\ op = "variant"
    /\ result.tag = "TabixError"
    /\ result.file = formatted_file

\* C9: a failure to launch the retrieval subprocess is reported by
\* get_stats_for_variant and get_stats_for_region as a retrieval error
\* value; the process is not aborted.
C9_LaunchFailureIsError ==
    exit_status = "spawn_failed"
    => /\ pc # "aborted"
       /\ result.tag \in {"TabixError", "Err"}

\* C10: a line that fails to parse does not abort the stream: next reports
\* an error for it and goes on, so consuming a malformed line never ends in
\* a panic.
C10_MalformedLineDoesNotAbort ==
    \A i \in 1..pos : Malformed(lines[i]) => pc # "aborted"

\* The stream of a whole-file read was built and its holder stopped pulling,
\* at the end of the stream or by a panic.
WholeFileEnded ==
    /\ op = "read_file"
    /\ result.tag = "OkStream"
    /\ pc \in {"drained", "aborted"}

\* C11: a whole-file stream over a file of n lines (of readable text) yields
\* exactly n-1 items, the i-th being the parse of line i+1, in file order,
\* one line per call of next; a file of one line or of none yields nothing.
C11_WholeFileStream ==
    WholeFileEnded /\ (\A i \in 1..Len(lines) : lines[i].utf8)
    => /\ pc = "drained"
       /\ pos = Len(lines)
       /\ Len(yielded) = (IF Len(lines) = 0 THEN 0 ELSE Len(lines) - 1)
       /\ \A i \in 1..Len(yielded) : yielded[i] = next_item(lines[i + 1])

\* Number of lines the stream dropped before its first item.
Skipped == IF op = "read_file" THEN 1 ELSE 0

\* C12: for every well-formed line, get_coded_allele of the parsed record is
\* the uppercased column 5 and get_reference_allele the uppercased column 4,
\* in whichever order the Variant stores its two alleles.
C12_SlotFollowsColumn ==
    \A i \in 1..Len(yielded) :
        LET fields == lines[i + Skipped].fields
            stat   == yielded[i].stat
        IN  /\ get_coded_allele(stat) = to_uppercase(fields[5])
            /\ get_reference_allele(stat) = to_uppercase(fields[4])

\* A line whose column 5 is stored as the first allele of the pair, and a
\* lowercase line whose column 5 is stored as the second.
C12_Witness ==
    /\ storeOrder = "sorted"
    /\ Len(yielded) = 2
    /\ lines[1 + Skipped] = GoodGC
    /\ lines[2 + Skipped] = GoodCG
    /\ yielded[1].stat.coded_allele = "A1Coded"
    /\ get_coded_allele(yielded[1].stat) = "C"
    /\ yielded[2].stat.coded_allele = "A2Coded"
    /\ get_coded_allele(yielded[2].stat) = "G"
    /\ get_reference_allele(yielded[2].stat) = "C"

\* C14: waiting for the child's exit before reading its output never leaves
\* parent and child blocked on each other, however many lines the child
\* writes: the parent is never inside wait() while the child is blocked
\* writing to a full stdout pipe, so tabix always returns.  (The same state
\* with the stderr pipe, which is piped and never read, is reachable too.)
C14_NeverBlockedOnEachOther ==
    ~(pc = "waiting" /\ child = "blocked_stdout")

====
